---- MODULE Spec2Model ----
(***************************************************************************)
(* Model of finance_tracker.py: the in-memory list `expenses`, the CSV     *)
(* data file, and the functions load_expenses, save_expenses, add_expense, *)
(* generate_monthly_report, view_transactions and main_menu.               *)
(*                                                                         *)
(* A text (Python str) is a sequence of symbols.  Digits, signs, the dot   *)
(* and the space are one symbol each; a run of letters such as "Food" is   *)
(* one opaque symbol.  The data file is the sequence of its CSV lines,     *)
(* each line the sequence of its fields as the csv module delivers them    *)
(* (quoting and escaping are the csv library's, below this model).         *)
(* A float is an exact decimal with FracDigits fractional digits, held as  *)
(* an integer number of 10^-FracDigits units; binary rounding error of     *)
(* float addition and the spellings nan, inf and 1e3 are outside the       *)
(* modelled alphabet.                                                      *)
(***************************************************************************)
EXTENDS Integers, Sequences, FiniteSets, TLC

\* ---- bounds ----------------------------------------------------------
MaxRows == 1        \* data rows in the initial file
MaxAdds == 1        \* transactions entered through add_expense
MaxRuns == 2        \* invocations of main_menu
FracDigits == 3     \* fractional decimal digits a float carries

\* ---- program constants ------------------------------------------------
RoundDigits == 2

RECURSIVE Pow10(_)
Pow10(n) == IF n = 0 THEN 1 ELSE 10 * Pow10(n - 1)

Scale == Pow10(FracDigits)

\* ---- Python values ------------------------------------------------------
\* One record shape for str, float, None and list, so that values of
\* different Python types can be compared.
None == [t |-> "None", s |-> <<>>, n |-> 0, l |-> <<>>]
Str(s) == [t |-> "str", s |-> s, n |-> 0, l |-> <<>>]
Float(n) == [t |-> "float", s |-> <<>>, n |-> n, l |-> <<>>]
List(l) == [t |-> "list", s |-> <<>>, n |-> 0, l |-> l]

\* dict.get(key, default)
Get(d, k, default) == IF k \in DOMAIN d THEN d[k] ELSE default

CATEGORIES == << <<"Food">>, <<"Housing">>, <<"Transport">>, <<"Income">>, <<"Other">> >>
CategorySet == {CATEGORIES[i] : i \in 1..Len(CATEGORIES)}

kDate == Str(<<"date">>)
kCategory == Str(<<"category">>)
kDescription == Str(<<"description">>)
kAmount == Str(<<"amount">>)

\* fieldnames of save_expenses
fieldnames == << <<"date">>, <<"category">>, <<"description">>, <<"amount">> >>

\* ---- text helpers: str.strip, int(), float(), repr(float) ---------------
DigitChars == <<"0", "1", "2", "3", "4", "5", "6", "7", "8", "9">>
Digits == {DigitChars[i] : i \in 1..10}
DigitVal(c) == (CHOOSE i \in 1..10 : DigitChars[i] = c) - 1

RECURSIVE LStrip(_)
LStrip(s) == IF s # <<>> /\ Head(s) = " " THEN LStrip(Tail(s)) ELSE s

RECURSIVE RStrip(_)
RStrip(s) == IF s # <<>> /\ s[Len(s)] = " " THEN RStrip(SubSeq(s, 1, Len(s) - 1)) ELSE s

Strip(s) == RStrip(LStrip(s))

AllDigits(s) == \A i \in 1..Len(s) : s[i] \in Digits

RECURSIVE DigitsVal(_)
DigitsVal(s) ==
    IF s = <<>> THEN 0
    ELSE 10 * DigitsVal(SubSeq(s, 1, Len(s) - 1)) + DigitVal(s[Len(s)])

RECURSIVE Numeral(_)
Numeral(n) ==
    IF n < 10 THEN <<DigitChars[n + 1]>>
    ELSE Numeral(n \div 10) \o <<DigitChars[(n % 10) + 1]>>

Signed(t) == t # <<>> /\ Head(t) \in {"+", "-"}
Unsigned(t) == IF Signed(t) THEN Tail(t) ELSE t
SignOf(t) == IF t # <<>> /\ Head(t) = "-" THEN -1 ELSE 1

\* int(text): surrounding whitespace, an optional sign, one or more digits
ParseInt(s) ==
    LET t == Strip(s)
        body == Unsigned(t)
    IN IF body # <<>> /\ AllDigits(body)
       THEN [ok |-> TRUE, v |-> SignOf(t) * DigitsVal(body)]
       ELSE [ok |-> FALSE, v |-> 0]

\* the fractional digits as a count of 10^-FracDigits units
FracVal(fp) ==
    IF Len(fp) >= FracDigits THEN DigitsVal(SubSeq(fp, 1, FracDigits))
    ELSE DigitsVal(fp) * Pow10(FracDigits - Len(fp))

\* float(text): whitespace, optional sign, digits with at most one dot and
\* at least one digit
ParseFloat(s) ==
    LET t == Strip(s)
        body == Unsigned(t)
        dots == {i \in 1..Len(body) : body[i] = "."}
        dot == IF dots = {} THEN Len(body) + 1
               ELSE CHOOSE i \in dots : \A j \in dots : i <= j
        ip == SubSeq(body, 1, dot - 1)
        fp == SubSeq(body, dot + 1, Len(body))
    IN IF AllDigits(ip) /\ AllDigits(fp) /\ Len(ip) + Len(fp) >= 1
       THEN [ok |-> TRUE, v |-> SignOf(t) * (DigitsVal(ip) * Scale + FracVal(fp))]
       ELSE [ok |-> FALSE, v |-> 0]

RECURSIVE ZeroPad(_, _)
ZeroPad(s, w) == IF Len(s) >= w THEN s ELSE ZeroPad(<<"0">> \o s, w)

RECURSIVE DropZeros(_)
DropZeros(s) ==
    IF Len(s) > 1 /\ s[Len(s)] = "0" THEN DropZeros(SubSeq(s, 1, Len(s) - 1)) ELSE s

\* repr(float), which csv.writer uses for a float field: -25.5, 1000.0
Repr(n) ==
    LET a == IF n < 0 THEN -n ELSE n
    IN (IF n < 0 THEN <<"-">> ELSE <<>>)
       \o Numeral(a \div Scale) \o <<".">>
       \o DropZeros(ZeroPad(Numeral(a % Scale), FracDigits))

\* round(x, 2): the nearest multiple of 10^-2; on a decimal tie the binary
\* value of the float decides, so either neighbour can result
Round2(n) ==
    LET unit == Pow10(FracDigits - RoundDigits)
        lo == (n \div unit) * unit
        r == n % unit
    IN IF 2 * r < unit THEN {lo}
       ELSE IF 2 * r > unit THEN {lo + unit}
       ELSE {lo, lo + unit}

\* ---- csv.DictReader / csv.DictWriter --------------------------------------
\* The dict DictReader builds for one data row: dict(zip(fieldnames, row)),
\* surplus fields as a list under the key None (restkey), missing fields as
\* the value None (restval).
DictReaderRow(fn, row) ==
    LET lf == Len(fn)
        lr == Len(row)
        keys == {Str(fn[i]) : i \in 1..lf} \cup (IF lr > lf THEN {None} ELSE {})
        last(k) == CHOOSE i \in 1..lf : Str(fn[i]) = k /\ \A j \in 1..lf : Str(fn[j]) = k => j <= i
    IN [k \in keys |->
          IF k = None THEN List(SubSeq(row, lf + 1, lr))
          ELSE IF last(k) <= lr THEN Str(row[last(k)]) ELSE None]

\* what csv.writer writes for a field value
ToField(v) ==
    CASE v.t = "None" -> <<>>
      [] v.t = "float" -> Repr(v.n)
      [] v.t = "str" -> v.s
      [] OTHER -> <<"[...]">>

\* DictWriter._dict_to_list: a key outside fieldnames raises ValueError
WrongFields(d) == DOMAIN d \ {Str(fieldnames[i]) : i \in 1..Len(fieldnames)}

DictToList(d) == [i \in 1..Len(fieldnames) |-> ToField(Get(d, Str(fieldnames[i]), Str(<<>>)))]

\* ---- printed messages -----------------------------------------------------
\* msg: which message; exc: the exception it reports; skipped: the number of
\* "Skipping invalid data entry" lines before it; totals, net: the figures of
\* the report
Out(msg, exc, skipped) ==
    [msg |-> msg, exc |-> exc, skipped |-> skipped,
     totals |-> [c \in CategorySet |-> 0], net |-> 0]

\* ---- the data file ----------------------------------------------------------
NoFile == [exists |-> FALSE, lines |-> <<>>]
FileOf(lines) == [exists |-> TRUE, lines |-> lines]

\* ---- load_expenses ------------------------------------------------------------
\* The loop over the reader, from line i on.  A blank line is passed over by
\* DictReader.  float() of a str that is no number raises ValueError (the row
\* is skipped); a missing 'amount' key raises KeyError and float(None) raises
\* TypeError, both caught by the outer handler, which ends the load.
RECURSIVE LoadRows(_, _, _, _)
LoadRows(lines, i, acc, skipped) ==
    IF i > Len(lines) THEN [store |-> acc, out |-> Out("Loaded", "", skipped)]
    ELSE IF lines[i] = <<>> THEN LoadRows(lines, i + 1, acc, skipped)
    ELSE LET row == DictReaderRow(lines[1], lines[i])
         IN IF kAmount \notin DOMAIN row
            THEN [store |-> acc, out |-> Out("LoadError", "KeyError", skipped)]
            ELSE IF row[kAmount].t # "str"
            THEN [store |-> acc, out |-> Out("LoadError", "TypeError", skipped)]
            ELSE LET p == ParseFloat(row[kAmount].s)
                 IN IF p.ok
                    THEN LoadRows(lines, i + 1,
                                  Append(acc, [row EXCEPT ![kAmount] = Float(p.v)]), skipped)
                    ELSE LoadRows(lines, i + 1, acc, skipped + 1)

\* load_expenses without the clearing of the list
LoadExpensesKeepsList(old, f, io) ==
    IF ~f.exists THEN [store |-> old, out |-> Out("NotFound", "", 0)]
    ELSE IF io = "open" THEN [store |-> old, out |-> Out("LoadError", "OSError", 0)]
    ELSE LoadRows(f.lines, 2, old, 0)

\* old: the list held on entry; f: the data file; io: "ok", or "open" when
\* opening the file fails
LoadExpenses(old, f, io) ==
    IF ~f.exists THEN [store |-> <<>>, out |-> Out("NotFound", "", 0)]
    ELSE IF io = "open" THEN [store |-> <<>>, out |-> Out("LoadError", "OSError", 0)]
    ELSE LoadRows(f.lines, 2, <<>>, 0)

\* ---- save_expenses ------------------------------------------------------------
\* writer.writerows: the rows are converted and written one at a time, so the
\* rows before a record that raises are in the file when it is closed.
RECURSIVE WriteRows(_, _, _)
WriteRows(store, i, acc) ==
    IF i > Len(store) THEN [file |-> FileOf(acc), out |-> Out("Saved", "", 0)]
    ELSE IF WrongFields(store[i]) # {}
    THEN [file |-> FileOf(acc), out |-> Out("SaveError", "ValueError", 0)]
    ELSE WriteRows(store, i + 1, Append(acc, DictToList(store[i])))

\* save_expenses without the test for an empty list
SaveExpensesWritesEmpty(store, f, io) ==
    IF io = "open" THEN [file |-> f, out |-> Out("SaveError", "OSError", 0)]
    ELSE IF io = "write" THEN [file |-> FileOf(<<>>), out |-> Out("SaveError", "OSError", 0)]
    ELSE WriteRows(store, 1, <<fieldnames>>)

\* io: "ok"; "open" when opening for writing fails (the file is untouched);
\* "write" when the file was truncated by open and writing then fails
SaveExpenses(store, f, io) ==
    IF store = <<>> THEN [file |-> f, out |-> Out("NoData", "", 0)]
    ELSE IF io = "open" THEN [file |-> f, out |-> Out("SaveError", "OSError", 0)]
    ELSE IF io = "write" THEN [file |-> FileOf(<<>>), out |-> Out("SaveError", "OSError", 0)]
    ELSE WriteRows(store, 1, <<fieldnames>>)

\* ---- add_expense ----------------------------------------------------------------
\* Python indexing, zero-based, a negative index counting from the end
PyIndex(seq, i) == IF i >= 0 THEN seq[i + 1] ELSE seq[Len(seq) + i + 1]

\* the range test with the lower bound off by one
ValidChoiceFromZero(n) == 0 <= n /\ n <= Len(CATEGORIES)

ValidChoice(n) == 1 <= n /\ n <= Len(CATEGORIES)

NewExpense(d, c, a, desc) ==
    (kDate :> Str(d)) @@ (kCategory :> Str(c)) @@ (kDescription :> Str(desc))
      @@ (kAmount :> Float(a))

\* ---- generate_monthly_report ------------------------------------------------------
ZeroTotals == [c \in CategorySet |-> 0]

\* the aggregation without the fallback to 'Other'
BucketNoFallback(d) ==
    LET c == Get(d, kCategory, Str(<<"Other">>))
    IN IF c.t = "str" THEN c.s ELSE <<"Other">>

\* the bucket a record is added to
Bucket(d) ==
    LET c == Get(d, kCategory, Str(<<"Other">>))
    IN IF c.t = "str" /\ c.s \in CategorySet THEN c.s ELSE <<"Other">>

RECURSIVE Aggregate(_, _, _, _)
Aggregate(store, i, totals, net) ==
    IF i > Len(store) THEN [totals |-> totals, net |-> net]
    ELSE LET a == Get(store[i], kAmount, Float(0)).n
             b == Bucket(store[i])
         IN Aggregate(store, i + 1, [totals EXCEPT ![b] = @ + a], net + a)

\* ---- view_transactions ------------------------------------------------------------
\* The exception formatting one record raises, "" when it raises none:
\* exp[key] raises KeyError for a missing key, and None formatted with the
\* width spec '<10' raises TypeError.
ViewExc(d) ==
    IF kAmount \notin DOMAIN d THEN "KeyError"
    ELSE IF d[kAmount].t # "float" THEN "TypeError"
    ELSE IF kDate \notin DOMAIN d THEN "KeyError"
    ELSE IF d[kDate].t # "str" THEN "TypeError"
    ELSE IF kCategory \notin DOMAIN d THEN "KeyError"
    ELSE IF d[kCategory].t # "str" THEN "TypeError"
    ELSE IF kDescription \notin DOMAIN d THEN "KeyError"
    ELSE ""

ViewTransactions(store) ==
    IF store = <<>> THEN Out("NoTransactions", "", 0)
    ELSE LET bad == {i \in 1..Len(store) : ViewExc(store[i]) # ""}
         IN IF bad = {} THEN Out("Listing", "", 0)
            ELSE Out("Traceback", ViewExc(store[CHOOSE i \in bad : \A j \in bad : i <= j]), 0)

\* ---- inputs ---------------------------------------------------------------------
D0 == <<"2024-01-01">>
Today == <<"2024-01-02">>
Dates == {Today}

rFood20 == <<D0, <<"Food">>, <<"lunch">>, <<"-", "2", "0", ".", "0", "0">> >>
rIncome == <<D0, <<"Income">>, <<"pay">>, <<"1", "0", "0", "0", ".", "0", "0">> >>
rFood55 == <<D0, <<"Food">>, <<>>, <<"-", "5", ".", "5", "0">> >>
rMisc == <<D0, <<"Misc">>, <<"gift">>, <<" ", "1", "2", ".", "3", "4", "5">> >>
rBad == <<D0, <<"Food">>, <<"lunch">>, <<"abc">> >>
rShort == <<D0, <<"Food">>, <<"7">> >>
rLong == <<D0, <<"Income">>, <<"pay">>, <<"1", "0", "0", "0", ".", "0", "0">>, <<"extra">> >>
rBlank == <<>>

RowPool == {rFood20, rMisc, rBad, rShort, rLong, rBlank}

hNoDescription == << <<"date">>, <<"category">>, <<"amount">> >>
hNoAmount == << <<"date">>, <<"category">>, <<"description">> >>
Headers == {fieldnames, hNoDescription}

RowSeqs == UNION {[1..n -> RowPool] : n \in 0..MaxRows}

\* the data file before the first run: absent, empty, or a header line
\* followed by at most MaxRows lines
\* files of particular interest, whatever MaxRows is
NamedFiles ==
    {NoFile, FileOf(<<>>),
     FileOf(<<hNoAmount, rFood20>>),
     FileOf(<<fieldnames, rFood20, rIncome, rFood55>>),
     FileOf(<<fieldnames, rShort, rFood20>>),
     FileOf(<<fieldnames, rBad, rFood20>>),
     FileOf(<<fieldnames, rLong, rFood20>>)}

InitialFiles ==
    NamedFiles \cup {FileOf(<<h>> \o rows) : h \in Headers, rows \in RowSeqs}

CategoryInputs == {<<"9">>, <<"abc">>, <<"0">>, <<>>, <<"1">>, <<" ", "4", " ">>}
AmountInputs == {<<"abc">>, <<"2", ".", "6", "7", "5">>}
DescriptionInputs == {<<" ", "lunch", " ">>}
InvalidChoices == {"", "5"}

\* ---- state ------------------------------------------------------------------------
VARIABLES
    pc,               \* position of the process
    expenses,         \* the global list
    file,             \* expenses.csv
    out,              \* the message the last operation printed
    choice,           \* the last menu choice read
    inp,              \* the last line read by add_expense
    date_str,         \* add_expense locals
    category,
    amount,
    loads,            \* calls of load_expenses in this invocation of main_menu
    saves,            \* calls of save_expenses in this invocation of main_menu
    runs,             \* invocations of main_menu so far
    adds,             \* transactions entered so far
    entryStore,       \* the list as it was when load_expenses was called
    exitStore         \* the list as it was when save_expenses was called

vars == <<pc, expenses, file, out, choice, inp, date_str, category, amount,
          loads, saves, runs, adds, entryStore,
          exitStore>>

addLocals == <<date_str, category, amount>>
history == <<entryStore, exitStore>>

Init ==
    /\ pc = "start"
    /\ expenses = <<>>
    /\ file \in InitialFiles
    /\ out = Out("", "", 0)
    /\ choice = ""
    /\ inp = <<>>
    /\ date_str = <<>>
    /\ category = <<>>
    /\ amount = 0
    /\ loads = 0
    /\ saves = 0
    /\ runs = 1
    /\ adds = 0
    /\ entryStore = <<>>
    /\ exitStore = <<>>

\* main_menu, first statement: load_expenses()
Startup ==
    /\ pc = "start"
    /\ \E io \in {"ok", "open"} :
         LET r == LoadExpenses(expenses, file, io)
         IN /\ expenses' = r.store
            /\ out' = r.out
    /\ entryStore' = expenses
    /\ loads' = loads + 1
    /\ pc' = "menu"
    /\ UNCHANGED <<file, choice, inp, addLocals, saves, runs, adds,
                   exitStore>>

\* choice '1': add_expense up to the first category prompt
ChooseAdd ==
    /\ pc = "menu"
    /\ adds < MaxAdds
    /\ choice' = "1"
    /\ \E d \in Dates : date_str' = d
    /\ out' = Out("Categories", "", 0)
    /\ pc' = "add_category"
    /\ UNCHANGED <<expenses, file, inp, category, amount, loads, saves,
                   runs, adds, history>>

\* one round of the category loop
PromptCategory ==
    /\ pc = "add_category"
    /\ \E text \in CategoryInputs :
         LET p == ParseInt(text)
         IN /\ inp' = text
            /\ IF ~p.ok
               THEN /\ out' = Out("InvalidInput", "ValueError", 0)
                    /\ UNCHANGED <<pc, category>>
               ELSE IF ValidChoice(p.v)
               THEN /\ category' = PyIndex(CATEGORIES, p.v - 1)
                    /\ pc' = "add_amount"
                    /\ UNCHANGED out
               ELSE /\ out' = Out("InvalidNumber", "", 0)
                    /\ UNCHANGED <<pc, category>>
    /\ UNCHANGED <<expenses, file, choice, date_str, amount, loads, saves,
                   runs, adds, history>>

\* one round of the amount loop
PromptAmount ==
    /\ pc = "add_amount"
    /\ \E text \in AmountInputs :
         LET p == ParseFloat(text)
         IN /\ inp' = text
            /\ IF p.ok
               THEN /\ \E a \in Round2(p.v) : amount' = a
                    /\ pc' = "add_description"
                    /\ UNCHANGED out
               ELSE /\ out' = Out("InvalidAmount", "ValueError", 0)
                    /\ UNCHANGED <<pc, amount>>
    /\ UNCHANGED <<expenses, file, choice, date_str, category, loads, saves,
                   runs, adds, history>>

\* the description prompt, the new dict and the append
PromptDescription ==
    /\ pc = "add_description"
    /\ \E text \in DescriptionInputs :
         /\ inp' = text
         /\ expenses' = Append(expenses, NewExpense(date_str, category, amount, Strip(text)))
    /\ out' = Out("Added", "", 0)
    /\ adds' = adds + 1
    /\ pc' = "menu"
    /\ UNCHANGED <<file, choice, addLocals, loads, saves, runs, history>>

\* choice '2': view_transactions; an exception it raises is caught nowhere
ChooseView ==
    /\ pc = "menu"
    /\ choice' = "2"
    /\ out' = ViewTransactions(expenses)
    /\ pc' = IF out'.msg = "Traceback" THEN "crashed" ELSE "menu"
    /\ UNCHANGED <<expenses, file, inp, addLocals, loads, saves, runs,
                   adds, history>>

\* choice '3': generate_monthly_report
ChooseReport ==
    /\ pc = "menu"
    /\ choice' = "3"
    /\ IF expenses = <<>>
       THEN out' = Out("NoReport", "", 0)
       ELSE LET r == Aggregate(expenses, 1, ZeroTotals, 0)
            IN out' = [Out("Report", "", 0) EXCEPT !.totals = r.totals, !.net = r.net]
    /\ UNCHANGED <<pc, expenses, file, inp, addLocals, loads, saves, runs, adds, history>>

\* choice '4': save_expenses, then the loop is left
ChooseExit ==
    /\ pc = "menu"
    /\ choice' = "4"
    /\ \E io \in {"ok", "open", "write"} :
         LET r == SaveExpenses(expenses, file, io)
         IN /\ file' = r.file
            /\ out' = r.out
    /\ saves' = saves + 1
    /\ exitStore' = expenses
    /\ pc' = "exited"
    /\ UNCHANGED <<expenses, inp, addLocals, loads, runs, adds, entryStore>>

\* any other choice
ChooseInvalid ==
    /\ pc = "menu"
    /\ \E c \in InvalidChoices : choice' = c
    /\ out' = Out("InvalidChoice", "", 0)
    /\ UNCHANGED <<pc, expenses, file, inp, addLocals, loads, saves, runs,
                   adds, history>>

\* the script is run again: a new interpreter, the module-level list is []
NewProcess ==
    /\ pc = "exited"
    /\ runs < MaxRuns
    /\ expenses' = <<>>
    /\ runs' = runs + 1
    /\ loads' = 0
    /\ saves' = 0
    /\ pc' = "start"
    /\ UNCHANGED <<file, out, choice, inp, addLocals, adds, history>>

\* main_menu is called again in the same interpreter: the list is kept
Reinvoke ==
    /\ pc = "exited"
    /\ runs < MaxRuns
    /\ runs' = runs + 1
    /\ loads' = 0
    /\ saves' = 0
    /\ pc' = "start"
    /\ UNCHANGED <<expenses, file, out, choice, inp, addLocals, adds, history>>

Next ==
    \/ Startup
    \/ ChooseAdd
    \/ PromptCategory
    \/ PromptAmount
    \/ PromptDescription
    \/ ChooseView
    \/ ChooseReport
    \/ ChooseExit
    \/ ChooseInvalid
    \/ NewProcess
    \/ Reinvoke

Spec == Init /\ [][Next]_vars

\* ==== properties ===================================================================
Running == {"menu", "add_category", "add_amount", "add_description"}
FourKeys == {kDate, kCategory, kDescription, kAmount}
Absent == [t |-> "absent", s |-> <<>>, n |-> 0, l |-> <<>>]
Cents(c) == c * Pow10(FracDigits - RoundDigits)

\* Two records agree on date, category and description as text (a missing
\* or None value reads as the empty text) and on the amount to two decimals.
SameRecord(a, b) ==
    /\ \A k \in {kDate, kCategory, kDescription} :
         ToField(Get(a, k, None)) = ToField(Get(b, k, None))
    /\ Get(a, kAmount, None).t = Get(b, kAmount, None).t
    /\ Round2(Get(a, kAmount, None).n) = Round2(Get(b, kAmount, None).n)

SameRecords(s1, s2) ==
    /\ Len(s1) = Len(s2)
    /\ \A i \in 1..Len(s1) : SameRecord(s1[i], s2[i])

\* C1: saving a non-empty store and loading it again, with no I/O failure in
\* either, gives the same records in the same order.
C1_RoundTrip ==
    [][(/\ pc = "start"
        /\ runs > 1
        /\ exitStore # <<>>
        /\ out.exc # "OSError"
        /\ out'.exc # "OSError")
       => SameRecords(expenses', exitStore)]_vars

\* the position of the amount column in a header line, 0 when it has none
AmountColumn(header) ==
    IF \E i \in 1..Len(header) : header[i] = <<"amount">>
    THEN CHOOSE i \in 1..Len(header) : header[i] = <<"amount">>
    ELSE 0

\* the amount field of a data line converts to a number
Converts(header, line) ==
    /\ AmountColumn(header) # 0
    /\ AmountColumn(header) <= Len(line)
    /\ ParseFloat(line[AmountColumn(header)]).ok

RECURSIVE ConvertingRows(_, _)
ConvertingRows(lines, i) ==
    IF i > Len(lines) THEN <<>>
    ELSE IF Converts(lines[1], lines[i])
    THEN <<[DictReaderRow(lines[1], lines[i])
              EXCEPT ![kAmount] = Float(ParseFloat(lines[i][AmountColumn(lines[1])]).v)]>>
         \o ConvertingRows(lines, i + 1)
    ELSE ConvertingRows(lines, i + 1)

\* C2: after a load of an existing file the store holds exactly the rows
\* whose amount converts, in file order: a row that does not convert is
\* skipped and the rows after it are still loaded.
C2_SkipAndContinue ==
    (out.msg \in {"Loaded", "LoadError"} /\ out.exc # "OSError")
      => expenses = ConvertingRows(file.lines, 2)

\* the category a record counts towards
CountsTowards(d) ==
    IF kCategory \in DOMAIN d /\ d[kCategory] \in {Str(c) : c \in CategorySet}
    THEN d[kCategory].s
    ELSE <<"Other">>

RECURSIVE SumAmounts(_, _)
SumAmounts(store, I) ==
    IF I = {} THEN 0
    ELSE LET i == CHOOSE j \in I : TRUE
         IN store[i][kAmount].n + SumAmounts(store, I \ {i})

RECURSIVE SumTotals(_, _)
SumTotals(totals, C) ==
    IF C = {} THEN 0
    ELSE LET c == CHOOSE x \in C : TRUE
         IN totals[c] + SumTotals(totals, C \ {c})

\* the categories and amounts of the store, in order
CategoriesAndAmounts(store) ==
    [i \in 1..Len(store) |-> <<Get(store[i], kCategory, Absent).s, store[i][kAmount].n>>]

ExampleStore ==
    << <<<<"Food">>, Cents(-2000)>>, <<<<"Income">>, Cents(100000)>>, <<<<"Food">>, Cents(-550)>> >>

\* C3: the report's total of a category is the sum of the amounts of the
\* records counting towards it (an unlisted category counts towards Other),
\* the net total is the sum of all amounts and of the five category totals;
\* Food -20.00, Income 1000.00, Food -5.50 gives Food -25.50, Income 1000.00,
\* the others 0.00 and net 974.50.
C3_ReportTotals ==
    out.msg = "Report" =>
      /\ DOMAIN out.totals = CategorySet
      /\ \A c \in CategorySet :
           out.totals[c] =
             SumAmounts(expenses, {i \in 1..Len(expenses) : CountsTowards(expenses[i]) = c})
      /\ out.net = SumAmounts(expenses, 1..Len(expenses))
      /\ out.net = SumTotals(out.totals, CategorySet)
      /\ CategoriesAndAmounts(expenses) = ExampleStore =>
           /\ out.totals = [c \in CategorySet |->
                              CASE c = <<"Food">> -> Cents(-2550)
                                [] c = <<"Income">> -> Cents(100000)
                                [] OTHER -> 0]
           /\ out.net = Cents(97450)

C3_Witness ==
    /\ out.msg = "Report"
    /\ \E i \in 1..Len(expenses) : Get(expenses[i], kCategory, Absent).s \notin CategorySet
    /\ \E i \in 1..Len(expenses) : Get(expenses[i], kCategory, Absent).s = <<"Food">>
    /\ out.totals[<<"Other">>] # 0
    /\ out.totals[<<"Food">>] # 0

RECURSIVE DropLeadingZeros(_)
DropLeadingZeros(s) ==
    IF Len(s) > 1 /\ Head(s) = "0" THEN DropLeadingZeros(Tail(s)) ELSE s

\* the text is a decimal numeral of k, with an optional plus sign
Denotes(text, k) ==
    LET t == Strip(text)
        body == IF t # <<>> /\ Head(t) = "+" THEN Tail(t) ELSE t
    IN body # <<>> /\ DropLeadingZeros(body) = Numeral(k)

\* the text is a decimal number: digits with at most one dot, an optional sign
NumberText(text) ==
    LET body == Unsigned(Strip(text))
    IN /\ \A i \in 1..Len(body) : body[i] \in Digits \cup {"."}
       /\ Cardinality({i \in 1..Len(body) : body[i] = "."}) <= 1
       /\ \E i \in 1..Len(body) : body[i] \in Digits

C4_Step ==
    /\ pc = "add_category" =>
         /\ pc' \in {"add_category", "add_amount"}
         /\ expenses' = expenses
         /\ inp' \in {<<"9">>, <<"abc">>} => pc' = "add_category"
         /\ pc' = "add_amount" <=> \E k \in 1..Len(CATEGORIES) : Denotes(inp', k)
         /\ pc' = "add_amount" =>
              \E k \in 1..Len(CATEGORIES) : Denotes(inp', k) /\ category' = CATEGORIES[k]
    /\ pc = "add_amount" =>
         /\ pc' \in {"add_amount", "add_description"}
         /\ expenses' = expenses
         /\ pc' = "add_description" <=> NumberText(inp')
    /\ pc = "add_description" =>
         /\ pc' = "menu"
         /\ category \in CategorySet
         /\ Len(expenses') = Len(expenses) + 1
         /\ SubSeq(expenses', 1, Len(expenses)) = expenses
         /\ expenses'[Len(expenses')][kCategory] = Str(category)

\* C4: add_expense asks for the category again until the input is an integer
\* from 1 to the number of categories (9 and abc are rejected) and for the
\* amount again until it is a number; it then appends one record with the
\* chosen category and changes no record already in the store.
C4_AddExpense == [][C4_Step]_vars

C4_Witness ==
    /\ pc = "menu"
    /\ out.msg = "Added"
    /\ Len(expenses) >= 2
    /\ expenses[Len(expenses)][kCategory] = Str(<<"Income">>)
    /\ expenses[Len(expenses)][kDate] = Str(Today)

\* C5: after save_expenses on a non-empty store with no I/O failure the file
\* is the header line followed by one line per record, in store order.
C5_FileIsHeaderAndRows ==
    (pc = "exited" /\ exitStore # <<>> /\ out.exc # "OSError")
      => file = FileOf(<<fieldnames>>
                       \o [i \in 1..Len(exitStore) |-> DictToList(exitStore[i])])

\* C6: save_expenses on an empty store writes nothing: the file, absent or
\* present, is as it was, and the store stays empty.
C6_EmptySaveWritesNothing ==
    [][(pc = "menu" /\ pc' = "exited" /\ expenses = <<>>)
       => (file' = file /\ expenses' = <<>>)]_vars

C6_Witness ==
    /\ pc = "exited"
    /\ exitStore = <<>>
    /\ out.msg = "NoData"
    /\ file.exists
    /\ Len(file.lines) > 1

\* C7: load_expenses with no data file leaves the store empty, whatever it
\* held, creates no file and returns to main_menu, which goes on to the menu.
C7_MissingFile ==
    [][(pc = "start" /\ ~file.exists)
       => (expenses' = <<>> /\ file' = file /\ pc' = "menu")]_vars

C7_Witness ==
    /\ pc = "menu"
    /\ out.msg = "NotFound"
    /\ entryStore # <<>>
    /\ expenses = <<>>
    /\ ~file.exists

C8_Step ==
    /\ pc = "start" => (pc' = "menu" /\ loads' = 1)
    /\ pc \in Running => loads' = loads
    /\ (pc # "exited" /\ pc' = "exited") =>
         (pc = "menu" /\ choice' = "4" /\ saves' = saves + 1)
    /\ (pc = "menu" /\ choice' # "4") => pc' \in Running
    /\ (pc = "menu" /\ choice' \notin {"1", "2", "3", "4"}) =>
         (expenses' = expenses /\ file' = file)

\* C8: main_menu calls load once, before the first prompt; exited is entered
\* only by choice 4 and after save_expenses was called; every other choice
\* leaves the loop running, and an invalid choice changes neither the store
\* nor the file.
C8_MenuOrdering == [][C8_Step]_vars

\* C9: no operation ends the program abnormally: it is at the start, in the
\* menu loop, or exited through choice 4.
C9_NeverFatal == pc \in {"start", "exited"} \cup Running

\* C10: after startup every record of the store has exactly the four fields
\* date, category, description and amount, and its amount is a number.
C10_WellFormedRecords ==
    pc # "start" =>
      \A i \in 1..Len(expenses) :
        /\ DOMAIN expenses[i] = FourKeys
        /\ expenses[i][kAmount].t = "float"

====
